---- MODULE Spec2Model ----
(***************************************************************************)
(* dementia: a Brainfuck-to-Python compiler, in two variants.              *)
(*                                                                         *)
(* src/dementia/__main__.py  run(code) = build_bytecode (lexer with run    *)
(* length grouping, then the peephole optimizer), build_python_code (one   *)
(* line of Python per instruction, loops as indented while blocks) and     *)
(* exec of the generated text.                                             *)
(*                                                                         *)
(* src/dementia.py  run(path) translates the source text to the lines of   *)
(* Python in one scan and executes them.                                   *)
(*                                                                         *)
(* The model keeps the generated program as a sequence of lines with their *)
(* indentation, and executes it with the block structure and the list      *)
(* indexing of Python.                                                     *)
(***************************************************************************)
EXTENDS Integers, Sequences, FiniteSets, TLC

VARIABLES
    variant,    \* "package": src/dementia/__main__.py, "script": src/dementia.py
    code,       \* the source text, a sequence of one-character strings
    given,      \* the standard input the run was given, a sequence of lines
    stdin,      \* the lines still unread on standard input
    stage,      \* "source", "parsed", "optimized", "built", "running", "done", "raised"
    err,        \* the exception that ended the run ("" when none)
    pass_1,     \* parse_basic_instructions(code)
    bytecode,   \* optimize_patterns(pass_1)
    python,     \* the lines of build_python_code(bytecode)
    pyline,     \* the line of python about to execute
    tape,       \* the list named tape of the generated program (<<>> before it exists)
    ptr,        \* the integer named ptr of the generated program
    out,        \* the code points printed so far
    nstage,     \* reference interpreter: "idle", "running", "done", "error"
    npc,        \* reference interpreter: position in code (0-based)
    ntape,      \* reference interpreter: tape
    nptr,       \* reference interpreter: pointer
    nout,       \* reference interpreter: bytes emitted
    nin         \* reference interpreter: bytes still unread

vars == <<variant, code, given, stdin, stage, err, pass_1, bytecode, python, pyline, tape, ptr,
          out, nstage, npc, ntape, nptr, nout, nin>>

pipelineVars == <<variant, code, given, stdin, stage, err, pass_1, bytecode, python, pyline,
                  tape, ptr, out>>

naiveVars == <<nstage, npc, ntape, nptr, nout, nin>>

----------------------------------------------------------------------------
(* Program constants and bounds *)

TapeLen == 512
CellMod == 256

\* sources are concatenations of at most MaxFrags fragments
MaxFrags == 3
\* a run stops printing after MaxOut characters
MaxOut == 4
\* the script's unreduced cells are followed up to this magnitude
MaxCell == 300
\* chr() accepts 0..0x10FFFF
MaxCodePoint == 1114111

----------------------------------------------------------------------------
(* Instructions *)

IncCell(amount) == [op |-> "IncCell", arg |-> amount]
IncPtr(amount) == [op |-> "IncPtr", arg |-> amount]
Transfer(distance) == [op |-> "Transfer", arg |-> distance]
StartLoop == [op |-> "StartLoop", arg |-> 0]
EndLoop == [op |-> "EndLoop", arg |-> 0]
Input == [op |-> "Input", arg |-> 0]
Output == [op |-> "Output", arg |-> 0]
Clear == [op |-> "Clear", arg |-> 0]

----------------------------------------------------------------------------
(* The lexer.  code_ptr is 0-based as in the source; code[code_ptr] of the *)
(* source is code[code_ptr + 1] here.  Indexing a str at len(code) raises  *)
(* IndexError, which the result records in "raised".                       *)

RECURSIVE sum_loop(_, _, _, _, _)
sum_loop(src, code_ptr, positive, negative, amount) ==
    IF code_ptr >= Len(src)
    THEN [raised |-> TRUE, code_ptr |-> code_ptr, amount |-> amount]
    ELSE IF src[code_ptr + 1] = positive
    THEN sum_loop(src, code_ptr + 1, positive, negative, amount + 1)
    ELSE IF src[code_ptr + 1] = negative
    THEN sum_loop(src, code_ptr + 1, positive, negative, amount - 1)
    ELSE [raised |-> FALSE, code_ptr |-> code_ptr - 1, amount |-> amount]

sum_repeatable_commands(src, code_ptr, positive, negative) ==
    sum_loop(src, code_ptr, positive, negative, 0)

RECURSIVE parse_loop(_, _, _)
parse_loop(src, code_ptr, acc) ==
    IF code_ptr >= Len(src)
    THEN [raised |-> FALSE, bytecode |-> acc]
    ELSE LET cmd == src[code_ptr + 1] IN
         IF cmd \in {"+", "-"}
         THEN LET r == sum_repeatable_commands(src, code_ptr, "+", "-") IN
              IF r.raised
              THEN [raised |-> TRUE, bytecode |-> acc]
              ELSE parse_loop(src, r.code_ptr + 1, Append(acc, IncCell(r.amount)))
         ELSE IF cmd \in {">", "<"}
         THEN LET r == sum_repeatable_commands(src, code_ptr, ">", "<") IN
              IF r.raised
              THEN [raised |-> TRUE, bytecode |-> acc]
              ELSE parse_loop(src, r.code_ptr + 1, Append(acc, IncPtr(r.amount)))
         ELSE IF cmd = "["
         THEN parse_loop(src, code_ptr + 1, Append(acc, StartLoop))
         ELSE IF cmd = "]"
         THEN parse_loop(src, code_ptr + 1, Append(acc, EndLoop))
         ELSE IF cmd = ","
         THEN parse_loop(src, code_ptr + 1, Append(acc, Input))
         ELSE IF cmd = "."
         THEN parse_loop(src, code_ptr + 1, Append(acc, Output))
         ELSE parse_loop(src, code_ptr + 1, acc)

parse_basic_instructions(src) == parse_loop(src, 0, <<>>)

----------------------------------------------------------------------------
(* The peephole optimizer.  i is 0-based; bytecode[i:] of the source       *)
(* starts at b[i + 1] here.                                                *)

\* case [StartLoop(), IncCell(_), EndLoop(), *_]
ClearWindow(b, i) ==
    /\ i + 3 <= Len(b)
    /\ b[i + 1].op = "StartLoop"
    /\ b[i + 2].op = "IncCell"
    /\ b[i + 3].op = "EndLoop"

\* case [StartLoop(), IncCell(-1), IncPtr(left), IncCell(1), IncPtr(right),
\*       EndLoop(), *_] if left == -right
TransferWindow(b, i) ==
    /\ i + 6 <= Len(b)
    /\ b[i + 1].op = "StartLoop"
    /\ b[i + 2] = IncCell(-1)
    /\ b[i + 3].op = "IncPtr"
    /\ b[i + 4] = IncCell(1)
    /\ b[i + 5].op = "IncPtr"
    /\ b[i + 6].op = "EndLoop"
    /\ b[i + 3].arg = -b[i + 5].arg

RECURSIVE optimize_loop(_, _, _)
optimize_loop(b, i, new_bytecode) ==
    IF i >= Len(b)
    THEN new_bytecode
    ELSE IF ClearWindow(b, i)
    THEN optimize_loop(b, i + 3, Append(new_bytecode, Clear))
    ELSE IF TransferWindow(b, i)
    THEN optimize_loop(b, i + 6, Append(new_bytecode, Transfer(b[i + 3].arg)))
    ELSE optimize_loop(b, i + 1, Append(new_bytecode, b[i + 1]))

\* the optimizer with the clear case written as IncCell(-1): "[+]" is left alone
RECURSIVE optimize_loop_minus_only(_, _, _)
optimize_loop_minus_only(b, i, new_bytecode) ==
    IF i >= Len(b)
    THEN new_bytecode
    ELSE IF ClearWindow(b, i) /\ b[i + 2].arg = -1
    THEN optimize_loop_minus_only(b, i + 3, Append(new_bytecode, Clear))
    ELSE IF TransferWindow(b, i)
    THEN optimize_loop_minus_only(b, i + 6,
                                  Append(new_bytecode, Transfer(b[i + 3].arg)))
    ELSE optimize_loop_minus_only(b, i + 1, Append(new_bytecode, b[i + 1]))

optimize_patterns_minus_only(b) == optimize_loop_minus_only(b, 0, <<>>)

optimize_patterns(b) == optimize_loop(b, 0, <<>>)

----------------------------------------------------------------------------
(* The code generator.  A line of the generated text is its indentation    *)
(* (in units of four spaces) and its statement.  '    ' * indent is the    *)
(* empty string when indent is negative.                                   *)

While == [op |-> "While", arg |-> 0]
TapeInit == [op |-> "TapeInit", arg |-> 0]
PtrInit == [op |-> "PtrInit", arg |-> 0]
AddTo(distance) == [op |-> "AddTo", arg |-> distance]

emit(lines, indent, stmt) ==
    Append(lines, [indent |-> IF indent > 0 THEN indent ELSE 0, stmt |-> stmt])

RECURSIVE build_loop(_, _, _, _)
build_loop(b, k, indent, lines) ==
    IF k > Len(b)
    THEN lines
    ELSE LET op == b[k] IN
         IF op.op = "StartLoop"
         THEN build_loop(b, k + 1, indent + 1, emit(lines, indent, While))
         ELSE IF op.op = "EndLoop"
         THEN build_loop(b, k + 1, indent - 1, lines)
         ELSE IF op.op = "Transfer"
         THEN build_loop(b, k + 1, indent,
                         emit(emit(lines, indent, AddTo(op.arg)), indent, Clear))
         ELSE build_loop(b, k + 1, indent, emit(lines, indent, op))

build_python_code(b) ==
    build_loop(b, 1, 0, emit(emit(<<>>, 0, TapeInit), 0, PtrInit))

----------------------------------------------------------------------------
(* exec(python): Python first compiles the whole text.  A while header     *)
(* must be followed by a deeper line; any other line must not be.          *)

PyCompiles(lines) ==
    \A k \in 1..Len(lines) :
        IF lines[k].stmt.op = "While"
        THEN k < Len(lines) /\ lines[k + 1].indent > lines[k].indent
        ELSE k = Len(lines) \/ lines[k + 1].indent <= lines[k].indent

\* the first line after line k that is not deeper than line k
RECURSIVE BlockEnd(_, _, _)
BlockEnd(lines, k, j) ==
    IF j > Len(lines) \/ lines[j].indent <= lines[k].indent
    THEN j
    ELSE BlockEnd(lines, k, j + 1)

\* the while header whose body holds line k
RECURSIVE Header(_, _, _)
Header(lines, k, h) ==
    IF lines[h].indent < lines[k].indent THEN h ELSE Header(lines, k, h - 1)

\* where control goes when the statement at line k has completed: the next
\* statement of its block, or else the header of the enclosing while, or
\* else past the end
After(lines, k) ==
    LET j == IF lines[k].stmt.op = "While" THEN BlockEnd(lines, k, k + 1) ELSE k + 1
    IN  IF j <= Len(lines) /\ lines[j].indent = lines[k].indent
        THEN j
        ELSE IF lines[k].indent = 0
        THEN Len(lines) + 1
        ELSE Header(lines, k, k - 1)

\* list indexing: tape[i] is defined for -len(tape) <= i < len(tape), a
\* negative i counting from the end
ValidIndex(t, i) == -Len(t) <= i /\ i < Len(t)
Slot(t, i) == IF i >= 0 THEN i + 1 ELSE Len(t) + i + 1

----------------------------------------------------------------------------
(* src/dementia.py: the one-scan translator.  p is bf.ptr, 0-based.  The   *)
(* indentation is counted in levels of four spaces, as emit does.          *)

AddRaw(count) == [op |-> "AddRaw", arg |-> count]

count_delta(src, p, positive, negative) == sum_loop(src, p, positive, negative, 0)

\* the number of consecutive characters ch from position p on
RECURSIVE RunLen(_, _, _)
RunLen(src, p, ch) ==
    IF p < Len(src) /\ src[p + 1] = ch THEN 1 + RunLen(src, p + 1, ch) ELSE 0

\* re.match(r"\[-(<+)\+(>+)\]|\[-(>+)\+(<+)\]", code[ptr:]); groups 1 and 2
\* belong to the first alternative only, so the second yields None
parse_transfer(src, p) ==
    LET left == RunLen(src, p + 2, "<")
        right == RunLen(src, p + 3 + left, ">")
        last == p + 3 + left + right
    IN  IF /\ p + 2 <= Len(src)
           /\ src[p + 1] = "["
           /\ src[p + 2] = "-"
           /\ left >= 1
           /\ p + 2 + left < Len(src)
           /\ src[p + 3 + left] = "+"
           /\ right >= 1
           /\ last < Len(src)
           /\ src[last + 1] = "]"
           /\ left = right
        THEN [found |-> TRUE, distance |-> -left, ptr |-> last]
        ELSE [found |-> FALSE, distance |-> 0, ptr |-> p]

RECURSIVE translate_loop(_, _, _, _)
translate_loop(src, p, lines, indentation) ==
    IF p >= Len(src)
    THEN [raised |-> FALSE, lines |-> lines]
    ELSE LET c == src[p + 1] IN
         IF c \in {"+", "-"}
         THEN LET r == count_delta(src, p, "+", "-") IN
              IF r.raised
              THEN [raised |-> TRUE, lines |-> lines]
              ELSE translate_loop(src, r.code_ptr + 1,
                                  emit(lines, indentation, AddRaw(r.amount)),
                                  indentation)
         ELSE IF c \in {">", "<"}
         THEN LET r == count_delta(src, p, ">", "<") IN
              IF r.raised
              THEN [raised |-> TRUE, lines |-> lines]
              ELSE translate_loop(src, r.code_ptr + 1,
                                  emit(lines, indentation, IncPtr(r.amount)),
                                  indentation)
         ELSE IF /\ p + 3 <= Len(src)
                 /\ c = "["
                 /\ src[p + 2] \in {"-", "+"}
                 /\ src[p + 3] = "]"
         THEN translate_loop(src, p + 3, emit(lines, indentation, Clear), indentation)
         ELSE IF parse_transfer(src, p).found
         THEN LET t == parse_transfer(src, p) IN
              translate_loop(src, t.ptr + 1,
                             emit(emit(lines, indentation, AddTo(t.distance)),
                                  indentation, Clear),
                             indentation)
         ELSE IF c = "["
         THEN translate_loop(src, p + 1, emit(lines, indentation, While),
                             indentation + 1)
         ELSE IF c = "]"
         THEN translate_loop(src, p + 1, lines, indentation - 1)
         ELSE IF c = ","
         THEN translate_loop(src, p + 1, emit(lines, indentation, Input), indentation)
         ELSE IF c = "."
         THEN translate_loop(src, p + 1, emit(lines, indentation, Output), indentation)
         ELSE translate_loop(src, p + 1, lines, indentation)

translate(src) ==
    translate_loop(src, 0, emit(emit(<<>>, 0, TapeInit), 0, PtrInit), 0)

----------------------------------------------------------------------------
(* Sources and inputs.  A fragment is one character or one loop: the two   *)
(* idioms of the optimizer and loops that miss them by one character.      *)

Fragments ==
    { <<"+">>, <<"-">>, <<">">>, <<"<">>, <<"[">>, <<"]">>, <<",">>, <<".">>,
      <<"x">>,
      <<"[", "-", "]">>, <<"[", "+", "]">>, <<"[", "+", "+", "]">>,
      <<"[", "-", ">", "+", "<", "]">>, <<"[", "-", "<", "+", ">", "]">>,
      <<"[", "-", ">", "+", ">", "]">> }

RECURSIVE Concats(_)
Concats(n) ==
    IF n = 0
    THEN {<<>>}
    ELSE LET S == Concats(n - 1) IN S \cup {s \o f : s \in S, f \in Fragments}

Rep(ch, n) == [k \in 1..n |-> ch]

\* programs longer than MaxFrags fragments: the scenarios of the
\* documentation and the walks off either end of the tape
Scenarios ==
    { <<"+", "+", "+", ".">>,
      Rep("+", 8) \o <<"[", ">">> \o Rep("+", 8) \o <<"<", "-", "]", ">", "+", ".">>,
      <<"+", "[", "-", "]", ".">>,
      Rep("+", 5) \o <<">", "+", "<", "[", "-", ">", "+", "<", "]", ">", ".">>,
      <<"[", "]", "+", "+", "+", ".">>,
      <<"+", "[", "[", "x", "]", "]", ".">>,
      <<">", "-", "<", "-", "[", "-", ">", "+", "<", "]", ">", ".">>,
      <<"+", "[", "-", ">", "<", "+", "<", ">", "]", ".">>,
      <<"+", "[", "+", "-", "]", ".">>,
      <<"+", "[", ">", "+", "]", ".">>,
      <<"+", "[", "<", "+", "]", ".">>,
      <<"-", "[", ".", "-", "]", "x">>,
      <<",", ".", ",", ".">> }

Sources == Concats(MaxFrags) \cup Scenarios

\* standard input is a sequence of lines, a line the code points before its
\* newline; only a source that holds "," is run on more than the empty input
Inputs == { <<>>, << <<>> >>, << <<65>> >>, << <<65, 66>> >> }

InputsFor(src) == IF \E k \in 1..Len(src) : src[k] = "," THEN Inputs ELSE {<<>>}

----------------------------------------------------------------------------
(* run(code): the pipeline, stage by stage *)

Init ==
    /\ variant \in {"package", "script"}
    /\ code \in Sources
    /\ given \in InputsFor(code)
    /\ stdin = given
    /\ stage = "source"
    /\ err = ""
    /\ pass_1 = <<>>
    /\ bytecode = <<>>
    /\ python = <<>>
    /\ pyline = 0
    /\ tape = <<>>
    /\ ptr = 0
    /\ out = <<>>
    /\ nstage = "idle"
    /\ npc = 0
    /\ ntape = <<>>
    /\ nptr = 0
    /\ nout = <<>>
    /\ nin = <<>>

\* pass_1 = parse_basic_instructions(code)
Parse ==
    /\ variant = "package"
    /\ stage = "source"
    /\ LET r == parse_basic_instructions(code) IN
       IF r.raised
       THEN stage' = "raised" /\ err' = "IndexError" /\ pass_1' = pass_1
       ELSE stage' = "parsed" /\ err' = err /\ pass_1' = r.bytecode
    /\ UNCHANGED <<variant, code, given, stdin, bytecode, python, pyline, tape, ptr, out>>
    /\ UNCHANGED naiveVars

\* return optimize_patterns(pass_1)
Optimize ==
    /\ stage = "parsed"
    /\ stage' = "optimized"
    /\ bytecode' = optimize_patterns(pass_1)
    /\ UNCHANGED <<variant, code, given, stdin, err, pass_1, python, pyline, tape, ptr, out>>
    /\ UNCHANGED naiveVars

\* python = build_python_code(bytecode)
BuildPython ==
    /\ stage = "optimized"
    /\ stage' = "built"
    /\ python' = build_python_code(bytecode)
    /\ UNCHANGED <<variant, code, given, stdin, err, pass_1, bytecode, pyline, tape, ptr, out>>
    /\ UNCHANGED naiveVars

\* src/dementia.py run: the scan that emits the lines
Translate ==
    /\ variant = "script"
    /\ stage = "source"
    /\ LET r == translate(code) IN
       IF r.raised
       THEN stage' = "raised" /\ err' = "IndexError" /\ python' = python
       ELSE stage' = "built" /\ err' = err /\ python' = r.lines
    /\ UNCHANGED <<variant, code, given, stdin, pass_1, bytecode, pyline, tape, ptr, out>>
    /\ UNCHANGED naiveVars

\* exec(python): the text is compiled before its first statement runs
ExecCompile ==
    /\ stage = "built"
    /\ IF PyCompiles(python)
       THEN stage' = "running" /\ err' = err /\ pyline' = 1
       ELSE stage' = "raised" /\ err' = "IndentationError" /\ pyline' = pyline
    /\ UNCHANGED <<variant, code, given, stdin, pass_1, bytecode, python, tape, ptr, out>>
    /\ UNCHANGED naiveVars

----------------------------------------------------------------------------
(* The statements of the generated program *)

Cur == python[pyline].stmt

At(kind) == stage = "running" /\ Cur.op = kind

\* the statement completed: go on, or finish past the last line
Continue(k) ==
    /\ pyline' = k
    /\ stage' = IF k > Len(python) THEN "done" ELSE "running"
    /\ err' = err

Raise(e) ==
    /\ stage' = "raised"
    /\ err' = e
    /\ pyline' = pyline

\* tape = [0] * 512
ExecTapeInit ==
    /\ At("TapeInit")
    /\ tape' = [k \in 1..TapeLen |-> 0]
    /\ Continue(After(python, pyline))
    /\ UNCHANGED <<variant, code, given, stdin, pass_1, bytecode, python, ptr, out>>
    /\ UNCHANGED naiveVars

\* ptr = 0
ExecPtrInit ==
    /\ At("PtrInit")
    /\ ptr' = 0
    /\ Continue(After(python, pyline))
    /\ UNCHANGED <<variant, code, given, stdin, pass_1, bytecode, python, tape, out>>
    /\ UNCHANGED naiveVars

\* tape[ptr] = (tape[ptr] + amount) % 256
ExecIncCell ==
    /\ At("IncCell")
    /\ IF ValidIndex(tape, ptr)
       THEN /\ tape' = [tape EXCEPT ![Slot(tape, ptr)] = (@ + Cur.arg) % CellMod]
            /\ Continue(After(python, pyline))
       ELSE Raise("IndexError") /\ tape' = tape
    /\ UNCHANGED <<variant, code, given, stdin, pass_1, bytecode, python, ptr, out>>
    /\ UNCHANGED naiveVars

\* tape[ptr] += count
ExecAddRaw ==
    /\ At("AddRaw")
    /\ IF ValidIndex(tape, ptr)
       THEN /\ tape[Slot(tape, ptr)] + Cur.arg \in -MaxCell..MaxCell
            /\ tape' = [tape EXCEPT ![Slot(tape, ptr)] = @ + Cur.arg]
            /\ Continue(After(python, pyline))
       ELSE Raise("IndexError") /\ tape' = tape
    /\ UNCHANGED <<variant, code, given, stdin, pass_1, bytecode, python, ptr, out>>
    /\ UNCHANGED naiveVars

\* ptr += amount
ExecIncPtr ==
    /\ At("IncPtr")
    /\ ptr' = ptr + Cur.arg
    /\ Continue(After(python, pyline))
    /\ UNCHANGED <<variant, code, given, stdin, pass_1, bytecode, python, tape, out>>
    /\ UNCHANGED naiveVars

\* while tape[ptr] != 0:
ExecWhile ==
    /\ At("While")
    /\ IF ValidIndex(tape, ptr)
       THEN IF tape[Slot(tape, ptr)] # 0
            THEN Continue(pyline + 1)
            ELSE Continue(After(python, pyline))
       ELSE Raise("IndexError")
    /\ UNCHANGED <<variant, code, given, stdin, pass_1, bytecode, python, tape, ptr, out>>
    /\ UNCHANGED naiveVars

\* tape[ptr] = ord(input()[:1] or '\0'): input() raises EOFError at the end
\* of the input; the line is read before the cell is stored
ExecInput ==
    /\ At("Input")
    /\ IF stdin = <<>>
       THEN Raise("EOFError") /\ tape' = tape /\ stdin' = stdin
       ELSE /\ stdin' = Tail(stdin)
            /\ IF ValidIndex(tape, ptr)
               THEN /\ tape' = [tape EXCEPT ![Slot(tape, ptr)] =
                                   IF Head(stdin) = <<>> THEN 0 ELSE Head(stdin)[1]]
                    /\ Continue(After(python, pyline))
               ELSE Raise("IndexError") /\ tape' = tape
    /\ UNCHANGED <<variant, code, given, pass_1, bytecode, python, ptr, out>>
    /\ UNCHANGED naiveVars

\* print(chr(tape[ptr]), end='')
ExecOutput ==
    /\ At("Output")
    /\ Len(out) < MaxOut
    /\ IF ~ValidIndex(tape, ptr)
       THEN Raise("IndexError") /\ out' = out
       ELSE IF tape[Slot(tape, ptr)] \notin 0..MaxCodePoint
       THEN Raise("ValueError") /\ out' = out
       ELSE /\ out' = Append(out, tape[Slot(tape, ptr)])
            /\ Continue(After(python, pyline))
    /\ UNCHANGED <<variant, code, given, stdin, pass_1, bytecode, python, tape, ptr>>
    /\ UNCHANGED naiveVars

\* tape[ptr] = 0
ExecClear ==
    /\ At("Clear")
    /\ IF ValidIndex(tape, ptr)
       THEN /\ tape' = [tape EXCEPT ![Slot(tape, ptr)] = 0]
            /\ Continue(After(python, pyline))
       ELSE Raise("IndexError") /\ tape' = tape
    /\ UNCHANGED <<variant, code, given, stdin, pass_1, bytecode, python, ptr, out>>
    /\ UNCHANGED naiveVars

\* tape[ptr + distance] += tape[ptr]: both cells are read before the store
ExecAddTo ==
    /\ At("AddTo")
    /\ IF ValidIndex(tape, ptr + Cur.arg) /\ ValidIndex(tape, ptr)
       THEN /\ tape' = [tape EXCEPT ![Slot(tape, ptr + Cur.arg)] =
                           @ + tape[Slot(tape, ptr)]]
            /\ Continue(After(python, pyline))
       ELSE Raise("IndexError") /\ tape' = tape
    /\ UNCHANGED <<variant, code, given, stdin, pass_1, bytecode, python, ptr, out>>
    /\ UNCHANGED naiveVars

Halted == stage \in {"done", "raised"}

----------------------------------------------------------------------------
(* The reference: the source interpreted one character at a time, as the   *)
(* documentation states the language (cells mod 256, a tape of 512 cells   *)
(* indexed from 0, an error outside it, 0 on exhausted input, unbalanced   *)
(* brackets refused before the first step).  It runs on the same source    *)
(* and the same input once the pipeline of the package has halted.         *)

RECURSIVE Depths(_, _, _)
\* the set of nesting depths after each of the first k characters
Depths(src, k, d) ==
    IF k > Len(src)
    THEN {d}
    ELSE LET e == IF src[k] = "[" THEN d + 1 ELSE IF src[k] = "]" THEN d - 1 ELSE d
         IN  {d} \cup Depths(src, k + 1, e)

RECURSIVE FinalDepth(_, _, _)
FinalDepth(src, k, d) ==
    IF k > Len(src)
    THEN d
    ELSE FinalDepth(src, k + 1,
                    IF src[k] = "[" THEN d + 1 ELSE IF src[k] = "]" THEN d - 1 ELSE d)

Balanced(src) ==
    /\ \A d \in Depths(src, 1, 0) : d >= 0
    /\ FinalDepth(src, 1, 0) = 0

\* the position (1-based) of the "]" matching the "[" at position k
RECURSIVE MatchEnd(_, _, _)
MatchEnd(src, k, d) ==
    LET e == IF src[k] = "[" THEN d + 1 ELSE IF src[k] = "]" THEN d - 1 ELSE d
    IN  IF e = 0 THEN k ELSE MatchEnd(src, k + 1, e)

\* the position (1-based) of the "[" matching the "]" at position k
RECURSIVE MatchStart(_, _, _)
MatchStart(src, k, d) ==
    LET e == IF src[k] = "]" THEN d + 1 ELSE IF src[k] = "[" THEN d - 1 ELSE d
    IN  IF e = 0 THEN k ELSE MatchStart(src, k - 1, e)

\* the bytes of the input: each line followed by its newline
RECURSIVE Bytes(_)
Bytes(lines) ==
    IF lines = <<>> THEN <<>> ELSE Head(lines) \o <<10>> \o Bytes(Tail(lines))

InTape(i) == 0 <= i /\ i < TapeLen

NaiveStage(k) == IF k >= Len(code) THEN "done" ELSE "running"

NaiveStart ==
    /\ variant = "package"
    /\ Halted
    /\ nstage = "idle"
    /\ nstage' = IF Balanced(code) THEN NaiveStage(0) ELSE "error"
    /\ npc' = 0
    /\ ntape' = [k \in 1..TapeLen |-> 0]
    /\ nptr' = 0
    /\ nout' = <<>>
    /\ nin' = Bytes(given)
    /\ UNCHANGED pipelineVars

NaiveStep ==
    /\ nstage = "running"
    /\ LET cmd == code[npc + 1]
           touches == cmd \in {"+", "-", ",", ".", "[", "]"}
           cell == ntape[nptr + 1]
       IN  /\ cmd = "." => Len(nout) < MaxOut
           /\ IF touches /\ ~InTape(nptr)
              THEN /\ nstage' = "error"
                   /\ UNCHANGED <<npc, ntape, nptr, nout, nin>>
              ELSE /\ ntape' =
                        CASE cmd = "+" -> [ntape EXCEPT ![nptr + 1] = (@ + 1) % CellMod]
                          [] cmd = "-" -> [ntape EXCEPT ![nptr + 1] = (@ + CellMod - 1) % CellMod]
                          [] cmd = "," -> [ntape EXCEPT ![nptr + 1] =
                                              IF nin = <<>> THEN 0 ELSE Head(nin)]
                          [] OTHER -> ntape
                   /\ nptr' = CASE cmd = ">" -> nptr + 1
                                [] cmd = "<" -> nptr - 1
                                [] OTHER -> nptr
                   /\ nout' = IF cmd = "." THEN Append(nout, cell) ELSE nout
                   /\ nin' = IF cmd = "," /\ nin # <<>> THEN Tail(nin) ELSE nin
                   /\ npc' = CASE cmd = "[" /\ cell = 0 -> MatchEnd(code, npc + 1, 0)
                               [] cmd = "]" /\ cell # 0 -> MatchStart(code, npc + 1, 0) - 1
                               [] OTHER -> npc + 1
                   /\ nstage' = NaiveStage(npc')
    /\ UNCHANGED pipelineVars

----------------------------------------------------------------------------
(* Specifications *)

Next ==
    \/ Parse
    \/ Optimize
    \/ BuildPython
    \/ Translate
    \/ ExecCompile
    \/ ExecTapeInit
    \/ ExecPtrInit
    \/ ExecIncCell
    \/ ExecAddRaw
    \/ ExecIncPtr
    \/ ExecWhile
    \/ ExecInput
    \/ ExecOutput
    \/ ExecClear
    \/ ExecAddTo
    \/ NaiveStart
    \/ NaiveStep

Spec == Init /\ [][Next]_vars

\* build_bytecode alone, on every source
InitCompile == Init /\ variant = "package" /\ given = <<>>

NextCompile ==
    \/ Parse
    \/ Optimize

SpecCompile == InitCompile /\ [][NextCompile]_vars

----------------------------------------------------------------------------
(* Properties *)

Count(b, kind) == Cardinality({k \in 1..Len(b) : b[k].op = kind})

\* the length of the longest prefix of src made of the characters in S
RECURSIVE PrefixIn(_, _)
PrefixIn(src, S) ==
    IF src # <<>> /\ Head(src) \in S THEN 1 + PrefixIn(Tail(src), S) ELSE 0

Occurrences(src, ch) == Cardinality({k \in 1..Len(src) : src[k] = ch})

\* one instruction per maximal run of +/- and of >/<, one per [ ] , . and
\* nothing for any other character
RECURSIVE Grouping(_)
Grouping(src) ==
    IF src = <<>>
    THEN <<>>
    ELSE LET c == Head(src)
             n == IF c \in {"+", "-"} THEN PrefixIn(src, {"+", "-"})
                  ELSE IF c \in {">", "<"} THEN PrefixIn(src, {">", "<"})
                  ELSE 1
             run == SubSeq(src, 1, n)
             rest == SubSeq(src, n + 1, Len(src))
         IN  CASE c \in {"+", "-"} ->
                    <<IncCell(Occurrences(run, "+") - Occurrences(run, "-"))>>
                        \o Grouping(rest)
               [] c \in {">", "<"} ->
                    <<IncPtr(Occurrences(run, ">") - Occurrences(run, "<"))>>
                        \o Grouping(rest)
               [] c = "[" -> <<StartLoop>> \o Grouping(rest)
               [] c = "]" -> <<EndLoop>> \o Grouping(rest)
               [] c = "," -> <<Input>> \o Grouping(rest)
               [] c = "." -> <<Output>> \o Grouping(rest)
               [] OTHER -> Grouping(rest)

\* C1: whenever the reference interpreter has finished on a source and an
\* input, the pipeline of the package has terminated normally exactly when the
\* reference has, and then with the same output, the same tape and the same
\* pointer.
C1_PipelineMatchesReference ==
    (variant = "package" /\ nstage \in {"done", "error"}) =>
        /\ (stage = "done") <=> (nstage = "done")
        /\ nstage = "done" => (out = nout /\ tape = ntape /\ ptr = nptr)

\* C2: a step that executes the transfer's add with the pointer and the
\* target inside the tape and both cells in 0..255 leaves the target equal to
\* (t + v) mod 256 and the pointer and every other cell unchanged, and the
\* step that follows it sets the source cell to 0 and changes nothing else.
C2_TransferAddsMod256 ==
    [][/\ (/\ variant = "package"
           /\ At("AddTo")
           /\ InTape(ptr)
           /\ InTape(ptr + Cur.arg)
           /\ tape[ptr + 1] \in 0..(CellMod - 1)
           /\ tape[ptr + Cur.arg + 1] \in 0..(CellMod - 1))
          => /\ ptr' = ptr
             /\ tape' = [tape EXCEPT ![ptr + Cur.arg + 1] =
                            (@ + tape[ptr + 1]) % CellMod]
       /\ (variant = "package" /\ At("Clear") /\ InTape(ptr))
          => /\ ptr' = ptr
             /\ tape' = [tape EXCEPT ![ptr + 1] = 0]]_vars

\* C3: a source whose brackets are unbalanced is never executed: the run
\* never reaches its first statement, no tape is created and nothing is
\* printed.
C3_UnbalancedNeverRuns ==
    (variant = "package" /\ ~Balanced(code)) =>
        /\ stage \notin {"running", "done"}
        /\ tape = <<>>
        /\ out = <<>>

\* C4: once the tape exists it has exactly 512 cells and every cell holds
\* an integer in 0..255.
C4_CellsAreBytes ==
    tape # <<>> =>
        /\ Len(tape) = TapeLen
        /\ \A k \in 1..Len(tape) : tape[k] \in 0..(CellMod - 1)

\* C5: a step that executes an input statement when no input is left, with
\* the pointer inside the tape, raises nothing, sets the current cell to 0 and
\* leaves the pointer, every other cell and the output unchanged.
C5_ExhaustedInputStoresZero ==
    [][(At("Input") /\ stdin = <<>> /\ InTape(ptr))
          => /\ stage' \in {"running", "done"}
             /\ tape' = [tape EXCEPT ![ptr + 1] = 0]
             /\ ptr' = ptr
             /\ out' = out]_vars

\* C6: a step that executes a statement which reads or writes the tape while
\* the pointer (or, for the transfer's add, the target) is outside 0..511 ends
\* the run with an error and leaves the tape and the output as they were.
C6_OutsideTapeAborts ==
    [][(/\ variant = "package"
        /\ stage = "running"
        /\ Cur.op \in {"IncCell", "While", "Input", "Output", "Clear", "AddTo"}
        /\ \/ ~InTape(ptr)
           \/ Cur.op = "AddTo" /\ ~InTape(ptr + Cur.arg))
          => /\ stage' = "raised"
             /\ tape' = tape
             /\ out' = out]_vars

\* C7: on every source the lexer returns normally, and its result is the
\* grouping of the source: one IncCell per maximal run of + and -, one IncPtr
\* per maximal run of > and <, one instruction per [ ] , and . and nothing else.
C7_LexerReturnsGrouping ==
    (variant = "package" /\ stage # "source") =>
        /\ stage # "raised"
        /\ pass_1 = Grouping(code)

\* C8: the optimizer applied to its own output changes nothing, no window of
\* its output matches the clear or the transfer pattern, and its output is
\* never longer than its input.
C8_OptimizeIdempotent ==
    stage = "optimized" =>
        /\ optimize_patterns(bytecode) = bytecode
        /\ \A i \in 0..Len(bytecode) :
               ~ClearWindow(bytecode, i) /\ ~TransferWindow(bytecode, i)
        /\ Len(bytecode) <= Len(pass_1)

\* a source in which the optimizer rewrote both a clear and a transfer loop
C8_Witness ==
    /\ stage = "optimized"
    /\ Count(bytecode, "Clear") >= 1
    /\ Count(bytecode, "Transfer") >= 1
    /\ Len(bytecode) < Len(pass_1)

\* C9: the optimizer emits a Clear for the windows StartLoop, IncCell(n),
\* EndLoop with n = 1 or n = -1 and for no other: the Clear instructions of its
\* output are as many as those windows of its input.
C9_ClearOnlyForUnitAmount ==
    stage = "optimized" =>
        Count(bytecode, "Clear") =
            Cardinality({i \in 0..Len(pass_1) :
                            ClearWindow(pass_1, i) /\ pass_1[i + 2].arg \in {1, -1}})

\* C10: a bracket-balanced program that opens with a loop, reached with the
\* current cell equal to 0 whatever its body, is executed past that loop: the
\* generated program is accepted, and "[]+++." ends having printed the byte 3.
C10_SkippedLoopContinues ==
    (Balanced(code) /\ code # <<>> /\ code[1] = "[") =>
        /\ err # "IndentationError"
        /\ (code = <<"[", "]", "+", "+", "+", ".">> /\ Halted)
              => (stage = "done" /\ out = <<3>>)

====
